---- MODULE Spec2Model ----
(***************************************************************************)
(* Model of hyperlane-core/src/traits/pending_operation.rs:                *)
(*   - the ordering of QueueOperation (impl Ord / PartialEq),              *)
(*   - an operation queue (binary min-heap) ordered by that ordering,      *)
(*   - the JSON encoding / decoding of PendingOperationStatus,             *)
(*   - the cost accounting functions total_estimated_cost and              *)
(*     gas_used_by_operation.                                              *)
(***************************************************************************)
EXTENDS Integers, Sequences, FiniteSets, TLC

\* ------------------------------------------------------------------ bounds
\* number of distinct Instants an operation's next_attempt_after may hold
MaxInstant == 2
\* number of origin domains
MaxOrigin == 2
\* priorities (message nonces) range over 0..MaxPriority
MaxPriority == 1
\* operation ids (H256 scaled down) range over 1..MaxId
MaxId == 3
\* longest sequence of arbitrary lexemes handed to the decoder
MaxRawLen == 2
\* width of the scaled-down U256
U256Bits == 3
\* fractional decimal digits of the fixed-point domain
FixedPointDigits == 2
\* largest operation batch
MaxBatch == 3

\* ------------------------------------------------------------ Option<T>
None == <<>>

Some(x) == <<x>>

\* --------------------------------------------------- PendingOperation data
\* the accessors the ordering reads: next_attempt_after(), origin_domain_id(),
\* priority(), id()
Operations ==
    [next_attempt_after : {None} \cup {Some(t) : t \in 1..MaxInstant},
     origin_domain_id   : 1..MaxOrigin,
     priority           : 0..MaxPriority,
     id                 : 1..MaxId]

\* std::cmp::Ord::cmp on integers (Instant, u32, H256)
IntCmp(x, y) == IF x < y THEN "Less" ELSE IF x > y THEN "Greater" ELSE "Equal"

\* a plausible slip: the readiness arms swapped
cmpReadinessSwapped(self, other) ==
    LET a == self.next_attempt_after
        b == other.next_attempt_after
    IN  IF a # None /\ b # None THEN IntCmp(a[1], b[1])
        ELSE IF a = None /\ b # None THEN "Greater"
        ELSE IF a # None /\ b = None THEN "Less"
        ELSE IF self.origin_domain_id = other.origin_domain_id
             THEN IntCmp(self.priority, other.priority)
             ELSE IntCmp(self.id, other.id)

\* a plausible slip: the id consulted before the priority for one origin
cmpIdFirst(self, other) ==
    LET a == self.next_attempt_after
        b == other.next_attempt_after
    IN  IF a # None /\ b # None THEN IntCmp(a[1], b[1])
        ELSE IF a = None /\ b # None THEN "Less"
        ELSE IF a # None /\ b = None THEN "Greater"
        ELSE IF self.id # other.id
             THEN IntCmp(self.id, other.id)
             ELSE IntCmp(self.priority, other.priority)

\* impl Ord for QueueOperation
cmp(self, other) ==
    LET a == self.next_attempt_after
        b == other.next_attempt_after
    IN  IF a # None /\ b # None THEN IntCmp(a[1], b[1])
        ELSE IF a = None /\ b # None THEN "Less"
        ELSE IF a # None /\ b = None THEN "Greater"
        ELSE IF self.origin_domain_id = other.origin_domain_id
             THEN IntCmp(self.priority, other.priority)
             ELSE IntCmp(self.id, other.id)

\* impl PartialOrd for QueueOperation
partial_cmp(self, other) == Some(cmp(self, other))

\* impl PartialEq for QueueOperation
eq(self, other) == self.id = other.id

\* ------------------------------------------------ operation queue (heap)
\* core::cmp::Reverse<QueueOperation>: Reverse(x) <= Reverse(y) iff x >= y,
\* and x >= y is partial_cmp(x, y) in {Greater, Equal}
ReverseLe(x, y) == partial_cmp(x, y)[1] \in {"Greater", "Equal"}

Swap(data, i, j) == [data EXCEPT ![i] = data[j], ![j] = data[i]]

\* BinaryHeap::sift_up(start, pos); positions are 1-based here, so the parent
\* of pos is pos \div 2
RECURSIVE sift_up(_, _, _)
sift_up(data, start, pos) ==
    IF pos > start
    THEN LET parent == pos \div 2
         IN  IF ReverseLe(data[pos], data[parent])
             THEN data
             ELSE sift_up(Swap(data, pos, parent), start, parent)
    ELSE data

\* BinaryHeap::sift_down_to_bottom(pos): move the hole down to a leaf along
\* the greater children, then sift it back up
RECURSIVE sift_down_to_bottom(_, _, _)
sift_down_to_bottom(data, start, pos) ==
    LET end   == Len(data)
        left  == 2 * pos
        right == 2 * pos + 1
    IN  IF right <= end
        THEN LET child == IF ReverseLe(data[left], data[right])
                          THEN right ELSE left
             IN  sift_down_to_bottom(Swap(data, pos, child), start, child)
        ELSE IF left = end
        THEN sift_up(Swap(data, pos, left), start, left)
        ELSE sift_up(data, start, pos)

\* BinaryHeap::push
HeapPush(data, op) == sift_up(Append(data, op), 1, Len(data) + 1)

\* BinaryHeap::pop, the heap left behind (the popped item is data[1])
HeapPop(data) ==
    LET last == data[Len(data)]
        rest == SubSeq(data, 1, Len(data) - 1)
    IN  IF rest = <<>> THEN rest
        ELSE sift_down_to_bottom([rest EXCEPT ![1] = last], 1, 1)

\* operations that are eligible immediately
ReadyOperations == {op \in Operations : op.next_attempt_after = None}

\* finite sets of ready operations with distinct ids
ReadyBatches ==
    {S \in SUBSET ReadyOperations :
        \A x, y \in S : x.id = y.id => x = y}

\* --------------------------------------------- PendingOperationStatus codec
\* enum ReprepareReason
ReprepareReasons ==
    {"ErrorCheckingDeliveryStatus", "ErrorCheckingIfRecipientIsContract",
     "ErrorFetchingIsmAddress", "ErrorGettingMetadataBuilder",
     "ErrorBuildingMetadata", "CouldNotFetchMetadata", "ErrorEstimatingGas",
     "ErrorCheckingGasRequirement", "GasPaymentRequirementNotMet",
     "ExceedsMaxGasLimit", "RevertedOrReorged"}

\* enum ConfirmReason
ConfirmReasons ==
    {"SubmittedBySelf", "AlreadySubmitted", "ErrorConfirmingDelivery",
     "ErrorRecordingProcessSuccess"}

\* enum PendingOperationStatus: <<variant>> or <<variant, reason>>
PendingOperationStatus ==
    {<<"FirstPrepareAttempt">>, <<"ReadyToSubmit">>}
        \cup {<<"Retry", r>> : r \in ReprepareReasons}
        \cup {<<"Confirm", c>> : c \in ConfirmReasons}

\* Result<T, E>
Ok(v) == [ok |-> TRUE, val |-> v, err |-> ""]

Err(e, dflt) == [ok |-> FALSE, val |-> dflt, err |-> e]

\* The encoded bytes are kept as the sequence of JSON lexemes whose
\* concatenation is the text: "{", "}", ":", "null" and string literals.
Str(name) == "\"" \o name \o "\""

\* a plausible slip: a hand-written serializer that drops the reason
to_jsonNoReason(s) == <<Str(s[1])>>

\* #[derive(Serialize)] through serde_json::to_vec: a unit variant is the
\* string "Variant", a newtype variant the object {"Variant":<inner>}
to_json(s) ==
    IF Len(s) = 1 THEN <<Str(s[1])>>
    ELSE <<"{", Str(s[1]), ":", Str(s[2]), "}">>

\* impl Encode::write_to, into a Vec<u8> (Vec's write takes the whole slice)
write_to(s, writer) == writer \o to_json(s)

\* Encode::to_vec as used by the test
to_vec(s) == write_to(s, <<>>)

\* serde_json's deserialize_enum for an enum with unit variants only,
\* reading at position pos: either "Variant" or {"Variant":null};
\* val is <<variant, next position>>
ParseUnitEnum(bytes, pos, variants) ==
    LET n == Len(bytes)
        IsVariant(tok) == \E v \in variants : tok = Str(v)
        Variant(tok) == CHOOSE v \in variants : tok = Str(v)
    IN  IF pos > n THEN Err("EofWhileParsingValue", <<>>)
        ELSE IF bytes[pos] = "{"
        THEN IF pos + 1 > n THEN Err("EofWhileParsingValue", <<>>)
             ELSE IF ~IsVariant(bytes[pos + 1]) THEN Err("unknown variant", <<>>)
             ELSE IF pos + 2 > n \/ bytes[pos + 2] # ":"
                  THEN Err("ExpectedColon", <<>>)
             ELSE IF pos + 3 > n \/ bytes[pos + 3] # "null"
                  THEN Err("invalid type", <<>>)
             ELSE IF pos + 4 > n \/ bytes[pos + 4] # "}"
                  THEN Err("ExpectedSomeValue", <<>>)
             ELSE Ok(<<Variant(bytes[pos + 1]), pos + 5>>)
        ELSE IF IsVariant(bytes[pos]) THEN Ok(<<Variant(bytes[pos]), pos + 1>>)
        ELSE Err("ExpectedSomeValue", <<>>)

\* #[derive(Deserialize)] for PendingOperationStatus through
\* serde_json::from_reader, which also rejects trailing characters
from_json(bytes) ==
    LET n == Len(bytes)
        units == {"FirstPrepareAttempt", "ReadyToSubmit"}
        all == units \cup {"Retry", "Confirm"}
        IsVariant(tok) == \E v \in all : tok = Str(v)
        Variant(tok) == CHOOSE v \in all : tok = Str(v)
        Finish(v, next) ==
            IF next = n + 1 THEN Ok(v) ELSE Err("TrailingCharacters", <<>>)
    IN  IF n = 0 THEN Err("EofWhileParsingValue", <<>>)
        ELSE IF bytes[1] = "{"
        THEN IF n < 2 THEN Err("EofWhileParsingValue", <<>>)
             ELSE IF ~IsVariant(bytes[2]) THEN Err("unknown variant", <<>>)
             ELSE IF n < 3 \/ bytes[3] # ":" THEN Err("ExpectedColon", <<>>)
             ELSE LET v == Variant(bytes[2])
                  IN  IF v \in units
                      THEN IF n < 4 \/ bytes[4] # "null"
                           THEN Err("invalid type", <<>>)
                           ELSE IF n < 5 \/ bytes[5] # "}"
                                THEN Err("ExpectedSomeValue", <<>>)
                                ELSE Finish(<<v>>, 6)
                      ELSE LET inner == ParseUnitEnum(bytes, 4,
                                  IF v = "Retry" THEN ReprepareReasons
                                                 ELSE ConfirmReasons)
                           IN  IF ~inner.ok THEN inner
                               ELSE IF inner.val[2] > n \/ bytes[inner.val[2]] # "}"
                                    THEN Err("ExpectedSomeValue", <<>>)
                                    ELSE Finish(<<v, inner.val[1]>>, inner.val[2] + 1)
        ELSE IF IsVariant(bytes[1])
        THEN IF Variant(bytes[1]) \in units
             THEN Finish(<<Variant(bytes[1])>>, 2)
             ELSE Err("invalid type", <<>>)
        ELSE Err("ExpectedSomeValue", <<>>)

\* impl Decode::read_from: any serde error becomes an IoError
read_from(reader) ==
    LET r == from_json(reader)
    IN  IF r.ok THEN r ELSE Err("IoError: Failed to deserialize", <<>>)

\* the lexemes stored bytes may consist of
Lexemes ==
    {"{", "}", ":", "null", Str("Bogus")}
        \cup {Str(v) : v \in {"FirstPrepareAttempt", "ReadyToSubmit", "Retry", "Confirm"}}
        \cup {Str(v) : v \in ReprepareReasons \cup ConfirmReasons}

\* stored bytes that need not come from the encoder: short lexeme sequences,
\* and encodings with one lexeme replaced
RawBytes ==
    UNION {[1..k -> Lexemes] : k \in 0..MaxRawLen}
        \cup UNION {{[to_vec(s) EXCEPT ![i] = l] :
                        i \in 1..Len(to_vec(s)), l \in Lexemes} :
                     s \in {<<"ReadyToSubmit">>, <<"Retry", "ErrorEstimatingGas">>,
                            <<"Confirm", "AlreadySubmitted">>}}

\* ---------------------------------------------------------- cost accounting
\* U256, scaled down to U256Bits bits
U256Max == 2 ^ U256Bits - 1

U256 == 0..U256Max

\* U256::saturating_add
saturating_add(x, y) == IF x + y > U256Max THEN U256Max ELSE x + y

\* a plausible slip: a wrapping addition
wrapping_add(x, y) == (x + y) % (U256Max + 1)

\* a plausible slip: the fold adding with overflow
RECURSIVE total_estimated_costWrapping(_)
total_estimated_costWrapping(ops) ==
    IF ops = <<>> THEN 0
    ELSE LET acc == total_estimated_costWrapping(SubSeq(ops, 1, Len(ops) - 1))
             est == ops[Len(ops)]
         IN  IF est # None THEN wrapping_add(acc, est[1]) ELSE acc

\* total_estimated_cost: the left fold over the operations'
\* get_tx_cost_estimate()
RECURSIVE total_estimated_cost(_)
total_estimated_cost(ops) ==
    IF ops = <<>> THEN 0
    ELSE LET acc == total_estimated_cost(SubSeq(ops, 1, Len(ops) - 1))
             est == ops[Len(ops)]
         IN  IF est # None THEN saturating_add(acc, est[1]) ELSE acc

\* FixedPointNumber: a decimal with FixedPointDigits fractional digits, held
\* as the integer value * FixedPointScale
FixedPointScale == 10 ^ FixedPointDigits

\* FixedPointNumber::try_from(U256)
FixedPointFromU256(x) == Ok(x * FixedPointScale)

\* FixedPointNumber * FixedPointNumber
FixedPointMul(a, b) == (a * b) \div FixedPointScale

\* CheckedDiv for FixedPointNumber: None when the divisor is zero
FixedPointCheckedDiv(a, b) ==
    IF b = 0 THEN None ELSE Some((a * FixedPointScale) \div b)

\* U256::try_from(FixedPointNumber): the decimals are dropped, and a value
\* beyond U256 is an error
FixedPointTryIntoU256(a) ==
    LET n == a \div FixedPointScale
    IN  IF n > U256Max THEN Err("Overflow", 0) ELSE Ok(n)

\* a plausible slip: the product taken with the wrong operand
gas_used_by_operationWrongOperand(gas_used, tx_estimated_cost, operation_estimated_cost) ==
    LET operation_gas_estimate == FixedPointFromU256(operation_estimated_cost)
        tx_gas_estimate == FixedPointFromU256(tx_estimated_cost)
        quotient == FixedPointCheckedDiv(
                        FixedPointMul(tx_gas_estimate.val, operation_gas_estimate.val),
                        tx_gas_estimate.val)
    IN  IF quotient = None THEN Err("Division by zero", 0)
        ELSE FixedPointTryIntoU256(quotient[1])

\* a plausible slip: a zero divisor answered with zero instead of an error
gas_used_by_operationZeroDefault(gas_used, tx_estimated_cost, operation_estimated_cost) ==
    LET gas_used_by_tx == FixedPointFromU256(gas_used)
        operation_gas_estimate == FixedPointFromU256(operation_estimated_cost)
        tx_gas_estimate == FixedPointFromU256(tx_estimated_cost)
        quotient == FixedPointCheckedDiv(
                        FixedPointMul(gas_used_by_tx.val, operation_gas_estimate.val),
                        tx_gas_estimate.val)
    IN  IF quotient = None THEN Ok(0)
        ELSE FixedPointTryIntoU256(quotient[1])

\* a plausible slip: the two estimates swapped in the ratio
gas_used_by_operationSwapped(gas_used, tx_estimated_cost, operation_estimated_cost) ==
    LET gas_used_by_tx == FixedPointFromU256(gas_used)
        operation_gas_estimate == FixedPointFromU256(operation_estimated_cost)
        tx_gas_estimate == FixedPointFromU256(tx_estimated_cost)
        quotient == IF tx_gas_estimate.val = 0 THEN None
                    ELSE FixedPointCheckedDiv(
                        FixedPointMul(gas_used_by_tx.val, tx_gas_estimate.val),
                        operation_gas_estimate.val)
    IN  IF quotient = None THEN Err("Division by zero", 0)
        ELSE FixedPointTryIntoU256(quotient[1])

\* gas_used_by_operation; gas_used is tx_outcome.gas_used
gas_used_by_operation(gas_used, tx_estimated_cost, operation_estimated_cost) ==
    LET gas_used_by_tx == FixedPointFromU256(gas_used)
        operation_gas_estimate == FixedPointFromU256(operation_estimated_cost)
        tx_gas_estimate == FixedPointFromU256(tx_estimated_cost)
    IN  IF ~gas_used_by_tx.ok THEN gas_used_by_tx
        ELSE IF ~operation_gas_estimate.ok THEN operation_gas_estimate
        ELSE IF ~tx_gas_estimate.ok THEN tx_gas_estimate
        ELSE LET quotient == FixedPointCheckedDiv(
                                FixedPointMul(gas_used_by_tx.val,
                                              operation_gas_estimate.val),
                                tx_gas_estimate.val)
             IN  IF quotient = None THEN Err("Division by zero", 0)
                 ELSE FixedPointTryIntoU256(quotient[1])

\* ------------------------------------------------------------------ state
VARIABLES
    opA, opB, opC,      \* the operations handed to the comparator
    ordAA, ordAB, ordBA, ordBC, ordAC,  \* results of cmp, "?" before the call
    eqAB,               \* result of eq(opA, opB), "?" before the call
    cmpPc,              \* "idle" | "start" | "compared"
    pending,            \* operations not yet pushed onto the queue
    queue,              \* the heap's backing vector
    popped,             \* the operations popped so far, in pop order
    status,             \* the PendingOperationStatus to store, None if raw
    encoded,            \* the bytes in the store
    decoded,            \* the Result of read_from
    codecPc,            \* "idle" | "status" | "stored" | "decoded"
    gas_used,           \* tx_outcome.gas_used
    tx_estimated_cost,  \* the estimate handed in for the transaction
    e1, e2,             \* the estimates of two operations
    share1, share2,     \* the Results of gas_used_by_operation for e1, e2
    gasPc,              \* "idle" | "start" | "attributed"
    ops,                \* a batch: each member's get_tx_cost_estimate()
    total,              \* the result of total_estimated_cost
    totalPc             \* "idle" | "start" | "summed"

cmpVars == <<opA, opB, opC, ordAA, ordAB, ordBA, ordBC, ordAC, eqAB, cmpPc>>

queueVars == <<pending, queue, popped>>

codecVars == <<status, encoded, decoded, codecPc>>

gasVars == <<gas_used, tx_estimated_cost, e1, e2, share1, share2, gasPc>>

totalVars == <<ops, total, totalPc>>

vars == <<cmpVars, queueVars, codecVars, gasVars, totalVars>>

\* a Result not produced yet
Pending == Err("pending", 0)

PendingStatus == Err("pending", <<>>)

\* the parts of the state a specification does not exercise
CmpIdle ==
    /\ opA = None /\ opB = None /\ opC = None
    /\ ordAA = "?" /\ ordAB = "?" /\ ordBA = "?" /\ ordBC = "?" /\ ordAC = "?"
    /\ eqAB = "?"
    /\ cmpPc = "idle"

QueueIdle == pending = {} /\ queue = <<>> /\ popped = <<>>

CodecIdle ==
    status = None /\ encoded = <<>> /\ decoded = PendingStatus /\ codecPc = "idle"

GasIdle ==
    /\ gas_used = 0 /\ tx_estimated_cost = 0 /\ e1 = 0 /\ e2 = 0
    /\ share1 = Pending /\ share2 = Pending
    /\ gasPc = "idle"

TotalIdle == ops = <<>> /\ total = 0 /\ totalPc = "idle"

\* ------------------------------------------------ comparator specifications
\* two operations handed to the comparator
CmpInit ==
    /\ opA \in Operations
    /\ opB \in Operations
    /\ opC = None
    /\ ordAA = "?" /\ ordAB = "?" /\ ordBA = "?" /\ ordBC = "?" /\ ordAC = "?"
    /\ eqAB = "?"
    /\ cmpPc = "start"
    /\ QueueIdle /\ CodecIdle /\ GasIdle /\ TotalIdle

\* the caller compares the two operations, both ways, and tests them for
\* equality
Compare ==
    /\ cmpPc = "start"
    /\ opC = None
    /\ ordAA' = partial_cmp(opA, opA)[1]
    /\ ordAB' = partial_cmp(opA, opB)[1]
    /\ ordBA' = partial_cmp(opB, opA)[1]
    /\ eqAB' = IF eq(opA, opB) THEN "true" ELSE "false"
    /\ cmpPc' = "compared"
    /\ UNCHANGED <<opA, opB, opC, ordBC, ordAC,
                   queueVars, codecVars, gasVars, totalVars>>

CmpNext == Compare

SpecCmp == CmpInit /\ [][CmpNext]_vars

\* three operations handed to the comparator
ChainInit ==
    /\ opA \in Operations
    /\ opB \in Operations
    /\ opC \in Operations
    /\ ordAA = "?" /\ ordAB = "?" /\ ordBA = "?" /\ ordBC = "?" /\ ordAC = "?"
    /\ eqAB = "?"
    /\ cmpPc = "start"
    /\ QueueIdle /\ CodecIdle /\ GasIdle /\ TotalIdle

\* the caller (a sort, a heap) compares the three operations pairwise
CompareChain ==
    /\ cmpPc = "start"
    /\ opC # None
    /\ ordAA' = partial_cmp(opA, opA)[1]
    /\ ordAB' = partial_cmp(opA, opB)[1]
    /\ ordBA' = partial_cmp(opB, opA)[1]
    /\ ordBC' = partial_cmp(opB, opC)[1]
    /\ ordAC' = partial_cmp(opA, opC)[1]
    /\ eqAB' = IF eq(opA, opB) THEN "true" ELSE "false"
    /\ cmpPc' = "compared"
    /\ UNCHANGED <<opA, opB, opC, queueVars, codecVars, gasVars, totalVars>>

ChainNext == CompareChain

SpecCmpChain == ChainInit /\ [][ChainNext]_vars

\* ------------------------------------------------------ queue specification
QueueInit ==
    /\ pending \in ReadyBatches
    /\ queue = <<>>
    /\ popped = <<>>
    /\ CmpIdle /\ CodecIdle /\ GasIdle /\ TotalIdle

\* the driver pushes one of the operations, in any order
Push ==
    /\ \E op \in pending :
          /\ queue' = HeapPush(queue, op)
          /\ pending' = pending \ {op}
    /\ UNCHANGED <<popped, cmpVars, codecVars, gasVars, totalVars>>

\* once everything is queued, the driver pops the minimum until empty
Pop ==
    /\ pending = {}
    /\ queue # <<>>
    /\ popped' = Append(popped, queue[1])
    /\ queue' = HeapPop(queue)
    /\ UNCHANGED <<pending, cmpVars, codecVars, gasVars, totalVars>>

QueueNext == Push \/ Pop

SpecQueue == QueueInit /\ [][QueueNext]_vars

\* ------------------------------------------------------ codec specification
\* either a status is about to be stored, or the store already holds bytes
CodecInit ==
    /\ \/ status \in PendingOperationStatus /\ encoded = <<>> /\ codecPc = "status"
       \/ status = None /\ encoded \in RawBytes /\ codecPc = "stored"
    /\ decoded = PendingStatus
    /\ CmpIdle /\ QueueIdle /\ GasIdle /\ TotalIdle

\* status.to_vec() is written to the store
EncodeStatus ==
    /\ codecPc = "status"
    /\ encoded' = to_vec(status)
    /\ codecPc' = "stored"
    /\ UNCHANGED <<status, decoded, cmpVars, queueVars, gasVars, totalVars>>

\* PendingOperationStatus::read_from on the stored bytes
DecodeStatus ==
    /\ codecPc = "stored"
    /\ decoded' = read_from(encoded)
    /\ codecPc' = "decoded"
    /\ UNCHANGED <<status, encoded, cmpVars, queueVars, gasVars, totalVars>>

CodecNext == EncodeStatus \/ DecodeStatus

SpecCodec == CodecInit /\ [][CodecNext]_vars

\* ------------------------------------------- gas attribution specification
GasInit ==
    /\ gas_used \in U256
    /\ tx_estimated_cost \in U256
    /\ e1 \in U256
    /\ e2 \in U256
    /\ share1 = Pending /\ share2 = Pending
    /\ gasPc = "start"
    /\ CmpIdle /\ QueueIdle /\ CodecIdle /\ TotalIdle

\* the driver attributes the transaction's gas to each of the two operations
Attribute ==
    /\ gasPc = "start"
    /\ share1' = gas_used_by_operation(gas_used, tx_estimated_cost, e1)
    /\ share2' = gas_used_by_operation(gas_used, tx_estimated_cost, e2)
    /\ gasPc' = "attributed"
    /\ UNCHANGED <<gas_used, tx_estimated_cost, e1, e2,
                   cmpVars, queueVars, codecVars, totalVars>>

GasNext == Attribute

SpecGas == GasInit /\ [][GasNext]_vars

\* ---------------------------------------------- batch total specification
\* get_tx_cost_estimate() of each member of a batch
Batches ==
    UNION {[1..k -> {None} \cup {Some(c) : c \in U256}] : k \in 0..MaxBatch}

TotalInit ==
    /\ ops \in Batches
    /\ total = 0
    /\ totalPc = "start"
    /\ CmpIdle /\ QueueIdle /\ CodecIdle /\ GasIdle

Total ==
    /\ totalPc = "start"
    /\ total' = total_estimated_cost(ops)
    /\ totalPc' = "summed"
    /\ UNCHANGED <<ops, cmpVars, queueVars, codecVars, gasVars>>

TotalNext == Total

SpecTotal == TotalInit /\ [][TotalNext]_vars

\* ------------------------------------------------------------------ claims
Compared == cmpPc = "compared"

\* C1: cmp is a strict total order: cmp(a,a) = Equal, cmp(a,b) = Less iff
\* cmp(b,a) = Greater, and cmp(a,b) = Less and cmp(b,c) = Less imply
\* cmp(a,c) = Less, also across operations of different origins.
C1_StrictTotalOrder ==
    Compared =>
        /\ ordAA = "Equal"
        /\ (ordAB = "Less" <=> ordBA = "Greater")
        /\ (ordAB = "Less" /\ ordBC = "Less" => ordAC = "Less")

\* C2: ready operations pushed in any order and then popped until the queue is
\* empty leave the queue, per origin, in ascending priority order.
C2_InOrderPerOrigin ==
    \A i, j \in 1..Len(popped) :
        (i < j /\ popped[i].origin_domain_id = popped[j].origin_domain_id)
            => popped[i].priority <= popped[j].priority

\* C3: an operation without next_attempt_after compares Less than one with a
\* next_attempt_after, and the latter Greater than the former, whatever the
\* instant, origins, priorities and ids are.
C3_ReadinessPrecedence ==
    (Compared /\ opA.next_attempt_after = None /\ opB.next_attempt_after # None)
        => (ordAB = "Less" /\ ordBA = "Greater")

C3_Witness ==
    /\ Compared
    /\ opA.next_attempt_after = None /\ opB.next_attempt_after = Some(1)
    /\ opA.id > opB.id /\ opA.priority > opB.priority
    /\ opA.origin_domain_id = opB.origin_domain_id
    /\ ordAB = "Less"

\* C4: of two ready operations of one origin, the one with the strictly lower
\* priority value compares Less, whatever the two ids are.
C4_SameOriginOrdering ==
    (/\ Compared
     /\ opA.next_attempt_after = None /\ opB.next_attempt_after = None
     /\ opA.origin_domain_id = opB.origin_domain_id
     /\ opA.priority < opB.priority)
        => ordAB = "Less"

C4_Witness ==
    /\ Compared
    /\ opA.next_attempt_after = None /\ opB.next_attempt_after = None
    /\ opA.origin_domain_id = opB.origin_domain_id
    /\ opA.priority < opB.priority
    /\ opA.id > opB.id
    /\ ordAB = "Less"

\* C5: cmp(a,b) = Equal exactly when a.id = b.id, which is exactly when eq
\* returns true.
C5_EqualIffSameId ==
    Compared =>
        /\ (ordAB = "Equal" <=> opA.id = opB.id)
        /\ (eqAB = "true" <=> opA.id = opB.id)

\* C6: decoding the bytes produced by encoding any PendingOperationStatus
\* succeeds and returns that status.
C6_RoundTrip ==
    (codecPc = "decoded" /\ status # None) => decoded = Ok(status)

C6_Witness ==
    /\ codecPc = "decoded"
    /\ status = <<"Retry", "CouldNotFetchMetadata">>
    /\ Len(encoded) = 5
    /\ decoded.ok

Attributed == gasPc = "attributed"

\* C7: with tx_estimated_cost = operation_estimated_cost = c, c nonzero,
\* gas_used_by_operation succeeds and returns exactly gas_used.
C7_Degeneracy ==
    (Attributed /\ tx_estimated_cost = e1 /\ e1 # 0) => share1 = Ok(gas_used)

C7_Witness ==
    /\ Attributed
    /\ tx_estimated_cost = e1 /\ e1 > 1 /\ gas_used > e1
    /\ share1.ok /\ share1.val = gas_used

\* C8: with tx_estimated_cost = 0, gas_used_by_operation returns the division
\* error and never a number, whatever gas_used and operation_estimated_cost
\* are.
C8_DivisionByZero ==
    (Attributed /\ tx_estimated_cost = 0)
        => (~share1.ok /\ share1.err = "Division by zero")

C8_Witness ==
    /\ Attributed
    /\ tx_estimated_cost = 0 /\ gas_used = 0 /\ e1 = 0
    /\ ~share1.ok

\* the share G * e / E and the computed share differ by less than one unit
WithinRounding(share, G, e, E) == share * E <= G * e /\ G * e < (share + 1) * E

\* C9: for two operations with estimates e1, e2 and E = e1 + e2 > 0, the
\* shares s1, s2 of gas_used = G are computed, s1 + s2 <= G, G - (s1 + s2) is
\* at most one unit per operation, and each share is G * ei / E up to that
\* rounding.
C9_Proportionality ==
    (Attributed /\ tx_estimated_cost = e1 + e2 /\ tx_estimated_cost > 0)
        => /\ share1.ok /\ share2.ok
           /\ share1.val + share2.val <= gas_used
           /\ gas_used - (share1.val + share2.val) <= 2
           /\ WithinRounding(share1.val, gas_used, e1, tx_estimated_cost)
           /\ WithinRounding(share2.val, gas_used, e2, tx_estimated_cost)

C9_Witness ==
    /\ Attributed
    /\ e1 = 1 /\ e2 = 2 /\ tx_estimated_cost = 3 /\ gas_used = 5
    /\ share1 = Ok(1) /\ share2 = Ok(3)

\* the sum of the estimates that are present
RECURSIVE SumOfEstimates(_)
SumOfEstimates(batch) ==
    IF batch = <<>> THEN 0
    ELSE (IF batch[1] = None THEN 0 ELSE batch[1][1]) + SumOfEstimates(Tail(batch))

\* C10: total_estimated_cost returns the sum of the estimates that are
\* present, saturated at the maximum U256; a member without estimate
\* contributes 0 and the empty batch yields 0.
C10_BatchTotal ==
    totalPc = "summed" =>
        total = (IF SumOfEstimates(ops) > U256Max THEN U256Max
                 ELSE SumOfEstimates(ops))

C10_Witness ==
    /\ totalPc = "summed"
    /\ Len(ops) = 3
    /\ ops[2] = None /\ ops[1] # None /\ ops[3] # None
    /\ SumOfEstimates(ops) > U256Max
    /\ total = U256Max

====
